---------------------------- MODULE Spec2Model ----------------------------
(***************************************************************************)
(* LiveSplit.SonicASRT auto splitter (src/src/lib.rs): the attachment      *)
(* loop of main, the per-tick sampler update_loop, and the decision        *)
(* functions start, split, reset, is_loading and game_time.                *)
(*                                                                         *)
(* Units and encodings                                                     *)
(*   - a Duration is an integer number of milliseconds;                    *)
(*   - an f32 read from game memory is given in thousandths of a second    *)
(*     (an integer), and DurationOfF32 converts it as the code does;       *)
(*   - Option<T> is a sequence of length 0 (None) or 1 (Some);             *)
(*   - Result<T, Error> of a memory read is [ok |-> TRUE, val |-> v] or    *)
(*     [ok |-> FALSE];                                                     *)
(*   - of the 58 per-event counters the model keeps coastal_cruise and     *)
(*     canyon_carnage (ordinary counters of zone sunshine_coast, also the  *)
(*     World-Tour start gate), arcade_annihilation (zone moonlight_park)   *)
(*     and fatal_finale (zone superstar_showdown); the other 54 are read   *)
(*     and tested exactly like coastal_cruise (lib.rs 630-724, 799-1092).  *)
(***************************************************************************)
EXTENDS Integers, Sequences, FiniteSets, TLC

VARIABLES
    pc,        \* position of main: "attach", "init", "update", "decide"
    alive,     \* whether the game process exists
    watchers,  \* struct Watchers of the current attachment
    settings,  \* struct Settings, registered once
    timer,     \* TimerState of the external timer
    inp,       \* results of the memory reads of the current tick's update_loop
    calls,     \* what main has evaluated and called since the scheduler last polled it
    seen,      \* timer states read by timer::state() in the current tick
    setTime,   \* argument given to timer::set_game_time in the current tick
    ref,       \* reference run: the same memory with every read succeeding
    addresses, \* Option<Addresses> of the current attachment
    image      \* steps of Addresses::init that failed in the attempt just made

vars ==
    <<pc, alive, watchers, settings, timer, inp, calls, seen, setTime, ref, addresses,
      image>>

-----------------------------------------------------------------------------
(* Bounds of the model *)

\* UpdateLoop is not taken when |total_igt| would exceed MaxIgtSteps * 10 milliseconds
MaxIgtSteps == 4

-----------------------------------------------------------------------------
(* Option, Result, Pair and Watcher (asr::watcher, imported at lib.rs 12-20) *)

None == <<>>

Some(x) == <<x>>

is_some(o) == o # None

unwrap(o) == o[1]

Ok(v) == [ok |-> TRUE, val |-> v]

Err == [ok |-> FALSE]

unwrap_or(r, d) == IF r.ok THEN r.val ELSE d

Pair(old, current) == [old |-> old, current |-> current]

pair_or(watcher, d) == IF watcher = None THEN Pair(d, d) ELSE unwrap(watcher)

changed(p) == p.old # p.current

changed_to(p, v) == changed(p) /\ p.current = v

increased(p) == p.old < p.current

\* a plausible slip: the watcher is updated twice with the same sample

\* Watcher::update_infallible: the first sample fills both halves of the pair
update_infallible(watcher, value) ==
    IF watcher = None
    THEN Some(Pair(value, value))
    ELSE Some(Pair(unwrap(watcher).current, value))

-----------------------------------------------------------------------------
(* Enumerations and constants of lib.rs *)

GameModes == {"WorldTour", "GandPrix", "TimeAttack", "SingleRace"}

Tracks == {"OceanView", "SambaStudios", "CarrierZone", "DragonCanyon", "TempleTrouble",
           "GalacticParade", "SeasonalShrines", "RoguesLanding", "DreamValley",
           "ChillyCastle", "GraffitiCity", "SanctuaryFalls", "GraveyardGig", "AddersLair",
           "BurningDepths", "RaceOfAges", "SushineTour", "ShibuyaDowntown", "RouletteRoad",
           "EggHangar", "OutrunBay"}

TimerStates == {"NotRunning", "Running", "Paused", "Ended"}

\* the per-event counters the model keeps
Counters == {"coastal_cruise", "canyon_carnage", "arcade_annihilation", "fatal_finale"}

\* the event identifier whose race time is the live timer (a u32, written in hex)
MarathonEvent == "0xE64B5DD8"

\* u32::default()
ZeroId == "0x00000000"

\* 0xFF, required_laps of a World-Tour event without a lap count
NoLapCount == 255

\* race_status of a finished segment
SegmentFinished == 4

\* the counter value of the two events that end with the credits
FinalStage == 4

\* the match of lib.rs 589-621 on the raw u32 (written in hex), None for the arm `_`
TrackOfId(id) ==
    CASE id = "0xD4257EBD" -> Some("OceanView")
      [] id = "0x32D305A8" -> Some("SambaStudios")
      [] id = "0xC72B3B98" -> Some("CarrierZone")
      [] id = "0x03EB7FFF" -> Some("DragonCanyon")
      [] id = "0xE3121777" -> Some("TempleTrouble")
      [] id = "0x4E015AB6" -> Some("GalacticParade")
      [] id = "0x503C1CBC" -> Some("SeasonalShrines")
      [] id = "0x7534B7CA" -> Some("RoguesLanding")
      [] id = "0x38A394ED" -> Some("DreamValley")
      [] id = "0xC5C9DEA1" -> Some("ChillyCastle")
      [] id = "0xD936550C" -> Some("GraffitiCity")
      [] id = "0x4A0FF7AE" -> Some("SanctuaryFalls")
      [] id = "0xCD8017BA" -> Some("GraveyardGig")
      [] id = "0xDC93F18B" -> Some("AddersLair")
      [] id = "0x2DB91FC2" -> Some("BurningDepths")
      [] id = "0x94610644" -> Some("RaceOfAges")
      [] id = "0xE6CD97F0" -> Some("SushineTour")
      [] id = "0xE87FDF22" -> Some("ShibuyaDowntown")
      [] id = "0x17463C8D" -> Some("RouletteRoad")
      [] id = "0xFEBC639E" -> Some("EggHangar")
      [] id = "0x1EF56CE1" -> Some("OutrunBay")
      [] OTHER -> None

\* the match of lib.rs 532-536, None for the arm `_`
GameModeOfByte(b) ==
    CASE b = 0 -> Some("WorldTour")
      [] b = 1 -> Some("GandPrix")
      [] b = 2 -> Some("TimeAttack")
      [] b = 3 -> Some("SingleRace")
      [] OTHER -> None

\* `as i64` of a float: truncation toward zero
TruncDiv(a, b) == IF a >= 0 THEN a \div b ELSE -((-a) \div b)

\* Duration::milliseconds((time * 100.0) as i64 * 10), time in thousandths of a second
DurationOfF32(time) == TruncDiv(time * 100, 1000) * 10

-----------------------------------------------------------------------------
(* struct Watchers and update_loop (lib.rs 343-415, 516-761) *)

\* Watchers::default(): every pair absent, both accumulators Duration::ZERO
WatchersDefault ==
    [run_start |-> None, end_credits |-> None, game_mode |-> None,
     required_laps |-> None, total_race_time |-> None, race_completed |-> None,
     race_status |-> None, igt |-> None, event_type |-> None, track_id |-> None,
     total_igt |-> 0, progress_igt |-> 0,
     coastal_cruise |-> None, canyon_carnage |-> None,
     arcade_annihilation |-> None, fatal_finale |-> None]

\* the fields of Watchers that are a Watcher<T>
WatcherNames ==
    {"run_start", "end_credits", "game_mode", "required_laps", "total_race_time",
     "race_completed", "race_status", "igt", "event_type", "track_id"} \cup Counters

\* the run-start sample taking either flag for the start of the run
run_start_sample_either(in) ==
    (in.run_start.ok /\ in.run_start.val = 1)
        \/ (in.run_start_2.ok /\ in.run_start_2.val = 1)

\* lib.rs 518-522: both flags must read 1
run_start_sample(in) ==
    (in.run_start.ok /\ in.run_start.val = 1)
        /\ (in.run_start_2.ok /\ in.run_start_2.val = 1)

\* lib.rs 526-527
end_credits_sample(in) == unwrap_or(in.end_credits, FALSE)

\* the arm `_` of the mode match falling back to the default mode
game_mode_sample_default(w, in) ==
    LET mode == IF in.mode_select.ok THEN GameModeOfByte(in.mode_select.val) ELSE None
    IN  IF is_some(mode) THEN unwrap(mode) ELSE "WorldTour"

\* lib.rs 532-547: an unmapped byte or a failed read keeps the current mode
game_mode_sample(w, in) ==
    LET mode == IF in.mode_select.ok THEN GameModeOfByte(in.mode_select.val) ELSE None
    IN  IF is_some(mode)
        THEN unwrap(mode)
        ELSE pair_or(w.game_mode, "WorldTour").current

\* lib.rs 553-555: the three pointer reads that lead to the race record
player_record_found(in) == in.player_links = 3

\* the required laps sampled as zero when the race record cannot be read
required_laps_sample_default(w, in) ==
    IF player_record_found(in) /\ in.required_laps.ok THEN in.required_laps.val ELSE 0

\* lib.rs 550-558
required_laps_sample(w, in) ==
    IF player_record_found(in) /\ in.required_laps.ok
    THEN in.required_laps.val
    ELSE pair_or(w.required_laps, 0).current

\* lib.rs 551-561
total_race_time_sample(w, in) ==
    IF player_record_found(in) /\ in.total_race_time.ok
    THEN DurationOfF32(in.total_race_time.val)
    ELSE pair_or(w.total_race_time, 0).current

\* lib.rs 572
race_completed_sample(in) == unwrap_or(in.race_completed, FALSE)

\* lib.rs 575
race_status_sample(in) == unwrap_or(in.race_status, 0)

\* the raw timer sampled as zero when its read fails
igt_sample_default(w, in) == IF in.igt.ok THEN DurationOfF32(in.igt.val) ELSE 0

\* lib.rs 576-582: a failed read keeps the current value
igt_sample(w, in) ==
    IF in.igt.ok THEN DurationOfF32(in.igt.val) ELSE pair_or(w.igt, 0).current

\* lib.rs 585-586
event_type_sample(in) == unwrap_or(in.event_type, ZeroId)

\* lib.rs 589-621: an unmapped identifier or a failed read keeps the current track
track_id_sample(w, in) ==
    LET track == IF in.track_id.ok THEN TrackOfId(in.track_id.val) ELSE None
    IN  IF is_some(track)
        THEN unwrap(track)
        ELSE pair_or(w.track_id, "OceanView").current

\* lib.rs 624-629 (and 639-644, ..., 709-714): the block of a zone, zero-filled when
\* the read fails; a failed pointer read leaves address 0, where the block read fails
stars(ptr_ok, block, zero) == IF ptr_ok /\ block.ok THEN block.val ELSE zero

sunshine_coast_stars(in) ==
    stars(in.sunshine_coast_ptr, in.sunshine_coast,
          [coastal_cruise |-> 0, canyon_carnage |-> 0])

moonlight_park_stars(in) ==
    stars(in.moonlight_park_ptr, in.moonlight_park, [arcade_annihilation |-> 0])

superstar_showdown_stars(in) ==
    stars(in.superstar_showdown_ptr, in.superstar_showdown, [fatal_finale |-> 0])

\* the value update_loop passes to update_infallible, per watcher
Samples(w, in) ==
    [run_start |-> run_start_sample(in),
     end_credits |-> end_credits_sample(in),
     game_mode |-> game_mode_sample(w, in),
     required_laps |-> required_laps_sample(w, in),
     total_race_time |-> total_race_time_sample(w, in),
     race_completed |-> race_completed_sample(in),
     race_status |-> race_status_sample(in),
     igt |-> igt_sample(w, in),
     event_type |-> event_type_sample(in),
     track_id |-> track_id_sample(w, in),
     coastal_cruise |-> sunshine_coast_stars(in).coastal_cruise,
     canyon_carnage |-> sunshine_coast_stars(in).canyon_carnage,
     arcade_annihilation |-> moonlight_park_stars(in).arcade_annihilation,
     fatal_finale |-> superstar_showdown_stars(in).fatal_finale]

\* the update skipping the race-status watcher when its read fails
update_watchers_fallible(w, in) ==
    [run_start |-> update_infallible(w.run_start, run_start_sample(in)),
     end_credits |-> update_infallible(w.end_credits, end_credits_sample(in)),
     game_mode |-> update_infallible(w.game_mode, game_mode_sample(w, in)),
     required_laps |-> update_infallible(w.required_laps, required_laps_sample(w, in)),
     total_race_time |->
        update_infallible(w.total_race_time, total_race_time_sample(w, in)),
     race_completed |-> update_infallible(w.race_completed, race_completed_sample(in)),
     race_status |->
        IF in.race_status.ok
        THEN update_infallible(w.race_status, race_status_sample(in))
        ELSE w.race_status,
     igt |-> update_infallible(w.igt, igt_sample(w, in)),
     event_type |-> update_infallible(w.event_type, event_type_sample(in)),
     track_id |-> update_infallible(w.track_id, track_id_sample(w, in)),
     total_igt |-> w.total_igt,
     progress_igt |-> w.progress_igt,
     coastal_cruise |->
        update_infallible(w.coastal_cruise, sunshine_coast_stars(in).coastal_cruise),
     canyon_carnage |->
        update_infallible(w.canyon_carnage, sunshine_coast_stars(in).canyon_carnage),
     arcade_annihilation |->
        update_infallible(w.arcade_annihilation,
                          moonlight_park_stars(in).arcade_annihilation),
     fatal_finale |->
        update_infallible(w.fatal_finale, superstar_showdown_stars(in).fatal_finale)]

\* update_loop with the update of race_status written twice
update_watchers_twice(w, in) ==
    [run_start |-> update_infallible(w.run_start, run_start_sample(in)),
     end_credits |-> update_infallible(w.end_credits, end_credits_sample(in)),
     game_mode |-> update_infallible(w.game_mode, game_mode_sample(w, in)),
     required_laps |-> update_infallible(w.required_laps, required_laps_sample(w, in)),
     total_race_time |->
        update_infallible(w.total_race_time, total_race_time_sample(w, in)),
     race_completed |-> update_infallible(w.race_completed, race_completed_sample(in)),
     race_status |->
        update_infallible(update_infallible(w.race_status, race_status_sample(in)),
                          race_status_sample(in)),
     igt |-> update_infallible(w.igt, igt_sample(w, in)),
     event_type |-> update_infallible(w.event_type, event_type_sample(in)),
     track_id |-> update_infallible(w.track_id, track_id_sample(w, in)),
     total_igt |-> w.total_igt,
     progress_igt |-> w.progress_igt,
     coastal_cruise |->
        update_infallible(w.coastal_cruise, sunshine_coast_stars(in).coastal_cruise),
     canyon_carnage |->
        update_infallible(w.canyon_carnage, sunshine_coast_stars(in).canyon_carnage),
     arcade_annihilation |->
        update_infallible(w.arcade_annihilation,
                          moonlight_park_stars(in).arcade_annihilation),
     fatal_finale |->
        update_infallible(w.fatal_finale, superstar_showdown_stars(in).fatal_finale)]

\* lib.rs 517-724: every watcher is updated once with its sample
update_watchers(w, in) ==
    [run_start |-> update_infallible(w.run_start, run_start_sample(in)),
     end_credits |-> update_infallible(w.end_credits, end_credits_sample(in)),
     game_mode |-> update_infallible(w.game_mode, game_mode_sample(w, in)),
     required_laps |-> update_infallible(w.required_laps, required_laps_sample(w, in)),
     total_race_time |->
        update_infallible(w.total_race_time, total_race_time_sample(w, in)),
     race_completed |-> update_infallible(w.race_completed, race_completed_sample(in)),
     race_status |-> update_infallible(w.race_status, race_status_sample(in)),
     igt |-> update_infallible(w.igt, igt_sample(w, in)),
     event_type |-> update_infallible(w.event_type, event_type_sample(in)),
     track_id |-> update_infallible(w.track_id, track_id_sample(w, in)),
     total_igt |-> w.total_igt,
     progress_igt |-> w.progress_igt,
     coastal_cruise |->
        update_infallible(w.coastal_cruise, sunshine_coast_stars(in).coastal_cruise),
     canyon_carnage |->
        update_infallible(w.canyon_carnage, sunshine_coast_stars(in).canyon_carnage),
     arcade_annihilation |->
        update_infallible(w.arcade_annihilation,
                          moonlight_park_stars(in).arcade_annihilation),
     fatal_finale |->
        update_infallible(w.fatal_finale, superstar_showdown_stars(in).fatal_finale)]

\* a race time that is always the official total race time
race_time_official(w, required_laps, total_race_time) == total_race_time

\* lib.rs 742-755: the time a completed race adds
race_time(w, required_laps, total_race_time) ==
    IF (is_some(w.game_mode) /\ unwrap(w.game_mode).current = "WorldTour"
            /\ required_laps = NoLapCount)
        \/ (is_some(w.event_type) /\ unwrap(w.event_type).current = MarathonEvent)
    THEN unwrap(w.igt).current
    ELSE total_race_time

\* the accumulators with a fold that adds the timer's current value, which is zero
accumulate_fold_current(w, timer_state, required_laps, total_race_time) ==
    IF timer_state = "NotRunning"
    THEN [w EXCEPT !.total_igt = 0, !.progress_igt = 0]
    ELSE IF is_some(w.race_completed) /\ is_some(w.igt)
    THEN LET race_completed == unwrap(w.race_completed)
             igt == unwrap(w.igt)
         IN  IF ~race_completed.current
             THEN IF is_some(w.race_status)
                  THEN IF changed_to(igt, 0) /\ unwrap(w.race_status).old = SegmentFinished
                       THEN [w EXCEPT !.total_igt = @ + igt.current,
                                      !.progress_igt = w.total_igt + igt.current]
                       ELSE [w EXCEPT !.progress_igt = w.total_igt + igt.current]
                  ELSE w
             ELSE IF changed_to(race_completed, TRUE)
             THEN LET total == w.total_igt + race_time(w, required_laps, total_race_time)
                  IN  [w EXCEPT !.total_igt = total, !.progress_igt = total]
             ELSE w
    ELSE w

\* the accumulators with a completion that leaves progress_igt as it was
accumulate_stale_progress(w, timer_state, required_laps, total_race_time) ==
    IF timer_state = "NotRunning"
    THEN [w EXCEPT !.total_igt = 0, !.progress_igt = 0]
    ELSE IF is_some(w.race_completed) /\ is_some(w.igt)
    THEN LET race_completed == unwrap(w.race_completed)
             igt == unwrap(w.igt)
         IN  IF ~race_completed.current
             THEN IF is_some(w.race_status)
                  THEN IF changed_to(igt, 0) /\ unwrap(w.race_status).old = SegmentFinished
                       THEN [w EXCEPT !.total_igt = @ + igt.old,
                                      !.progress_igt = w.total_igt + igt.old]
                       ELSE [w EXCEPT !.progress_igt = w.total_igt + igt.current]
                  ELSE w
             ELSE IF changed_to(race_completed, TRUE)
             THEN [w EXCEPT !.total_igt =
                                @ + race_time(w, required_laps, total_race_time)]
             ELSE w
    ELSE w

\* the accumulators with a NotRunning branch that clears total_igt only
accumulate_total_only(w, timer_state, required_laps, total_race_time) ==
    IF timer_state = "NotRunning"
    THEN [w EXCEPT !.total_igt = 0]
    ELSE IF is_some(w.race_completed) /\ is_some(w.igt)
    THEN LET race_completed == unwrap(w.race_completed)
             igt == unwrap(w.igt)
         IN  IF ~race_completed.current
             THEN IF is_some(w.race_status)
                  THEN IF changed_to(igt, 0) /\ unwrap(w.race_status).old = SegmentFinished
                       THEN [w EXCEPT !.total_igt = @ + igt.old,
                                      !.progress_igt = w.total_igt + igt.old]
                       ELSE [w EXCEPT !.progress_igt = w.total_igt + igt.current]
                  ELSE w
             ELSE IF changed_to(race_completed, TRUE)
             THEN LET total == w.total_igt + race_time(w, required_laps, total_race_time)
                  IN  [w EXCEPT !.total_igt = total, !.progress_igt = total]
             ELSE w
    ELSE w

\* the accumulators left alone while the timer is NotRunning
accumulate_keep(w, timer_state, required_laps, total_race_time) ==
    IF timer_state = "NotRunning"
    THEN w
    ELSE accumulate_total_only(w, timer_state, required_laps, total_race_time)

\* lib.rs 726-760: the two accumulators, after every watcher is updated
accumulate(w, timer_state, required_laps, total_race_time) ==
    IF timer_state = "NotRunning"
    THEN [w EXCEPT !.total_igt = 0, !.progress_igt = 0]
    ELSE IF is_some(w.race_completed) /\ is_some(w.igt)
    THEN LET race_completed == unwrap(w.race_completed)
             igt == unwrap(w.igt)
         IN  IF ~race_completed.current
             THEN IF is_some(w.race_status)
                  THEN IF changed_to(igt, 0) /\ unwrap(w.race_status).old = SegmentFinished
                       THEN [w EXCEPT !.total_igt = @ + igt.old,
                                      !.progress_igt = w.total_igt + igt.old]
                       ELSE [w EXCEPT !.progress_igt = w.total_igt + igt.current]
                  ELSE w
             ELSE IF changed_to(race_completed, TRUE)
             THEN LET total == w.total_igt + race_time(w, required_laps, total_race_time)
                  IN  [w EXCEPT !.total_igt = total, !.progress_igt = total]
             ELSE w
    ELSE w

\* update_loop (lib.rs 516-761)
update_loop(w, in, timer_state) ==
    accumulate(update_watchers(w, in), timer_state,
               required_laps_sample(w, in), total_race_time_sample(w, in))

-----------------------------------------------------------------------------
(* The decision functions (lib.rs 763-1160) *)

\* Option::is_some_and on a watcher's pair
is_some_and(watcher, P(_)) == is_some(watcher) /\ P(unwrap(watcher))

\* struct Settings (lib.rs 90-341): start, one flag per kept counter, and tracks, the
\* 21 per-track flags indexed by the track they belong to (lib.rs 1115-1135)
MakeSettings(start_flag, counters, tracks) ==
    [start |-> start_flag,
     coastal_cruise |-> "coastal_cruise" \in counters,
     canyon_carnage |-> "canyon_carnage" \in counters,
     arcade_annihilation |-> "arcade_annihilation" \in counters,
     fatal_finale |-> "fatal_finale" \in counters,
     tracks |-> [track \in Tracks |-> track \in tracks]]

\* the World-Tour gate reading an absent pair as its default
fresh_save_default(w) ==
    pair_or(w.coastal_cruise, 0).current = 0 /\ pair_or(w.canyon_carnage, 0).current = 0

\* lib.rs 779-788: the World-Tour gate of start
fresh_save(w) ==
    is_some_and(w.coastal_cruise, LAMBDA value : value.current = 0)
        /\ is_some_and(w.canyon_carnage, LAMBDA value : value.current = 0)

\* start reading the level of the run-start flag, not its edge
start_level(w, s) ==
    IF ~s.start
    THEN FALSE
    ELSE IF ~is_some_and(w.run_start, LAMBDA value : value.current)
    THEN FALSE
    ELSE IF is_some(w.game_mode)
    THEN CASE unwrap(w.game_mode).current \in {"GandPrix", "SingleRace"} -> TRUE
           [] unwrap(w.game_mode).current = "WorldTour" -> fresh_save(w)
           [] OTHER -> FALSE
    ELSE FALSE

\* a start() whose match sends every mode but World-Tour to the arm of the race modes
start_any_mode(w, s) ==
    IF ~s.start
    THEN FALSE
    ELSE IF ~is_some_and(w.run_start, LAMBDA value : changed_to(value, TRUE))
    THEN FALSE
    ELSE IF is_some(w.game_mode)
    THEN CASE unwrap(w.game_mode).current = "WorldTour" -> fresh_save(w)
           [] OTHER -> TRUE
    ELSE FALSE

\* lib.rs 763-793
start(w, s) ==
    IF ~s.start
    THEN FALSE
    ELSE IF ~is_some_and(w.run_start, LAMBDA value : changed_to(value, TRUE))
    THEN FALSE
    ELSE IF is_some(w.game_mode)
    THEN CASE unwrap(w.game_mode).current \in {"GandPrix", "SingleRace"} -> TRUE
           [] unwrap(w.game_mode).current = "WorldTour" -> fresh_save(w)
           [] OTHER -> FALSE
    ELSE FALSE

\* a counter clause that has lost its setting
counter_split_unconditional(w, s, name) ==
    is_some_and(w[name], LAMBDA value : increased(value))

\* a counter clause reading the level of the counter, not its increase
counter_split_level(w, s, name) ==
    is_some_and(w[name], LAMBDA value : value.current > 0) /\ s[name]

\* lib.rs 799-1033, 1048-1092: an ordinary counter increased and its flag is set
counter_split(w, s, name) ==
    is_some_and(w[name], LAMBDA value : increased(value)) /\ s[name]

\* lib.rs 1034-1047
arcade_annihilation_split(w, s) ==
    (is_some_and(w.arcade_annihilation, LAMBDA value : changed_to(value, FinalStage))
        /\ s.arcade_annihilation)
    \/ (is_some_and(w.end_credits, LAMBDA value : changed_to(value, TRUE))
        /\ is_some_and(w.arcade_annihilation, LAMBDA value : value.current # FinalStage)
        /\ s.arcade_annihilation)

\* the clauses of fatal_finale written like those of arcade_annihilation
fatal_finale_split_sentinel(w, s) ==
    (is_some_and(w.fatal_finale, LAMBDA value : changed_to(value, FinalStage))
        /\ s.fatal_finale)
    \/ (is_some_and(w.end_credits, LAMBDA value : changed_to(value, TRUE))
        /\ is_some_and(w.fatal_finale, LAMBDA value : value.current # FinalStage)
        /\ s.fatal_finale)

\* lib.rs 1093-1106
fatal_finale_split(w, s) ==
    (is_some_and(w.fatal_finale,
                 LAMBDA value : increased(value) /\ value.current # FinalStage)
        /\ s.fatal_finale)
    \/ (is_some_and(w.end_credits, LAMBDA value : changed_to(value, TRUE))
        /\ is_some_and(w.fatal_finale, LAMBDA value : value.current = FinalStage)
        /\ s.fatal_finale)

\* the clause of one counter pasted over the clause of another
world_tour_split_pasted(w, s) ==
    \/ counter_split(w, s, "canyon_carnage")
    \/ counter_split(w, s, "canyon_carnage")
    \/ arcade_annihilation_split(w, s)
    \/ fatal_finale_split(w, s)

\* lib.rs 798-1107
world_tour_split(w, s) ==
    \/ counter_split(w, s, "coastal_cruise")
    \/ counter_split(w, s, "canyon_carnage")
    \/ arcade_annihilation_split(w, s)
    \/ fatal_finale_split(w, s)

\* the arm of one track pasted with the setting of another
track_setting_pasted(w, s) ==
    IF is_some(w.track_id)
    THEN (IF unwrap(w.track_id).current = "SambaStudios"
          THEN s.tracks["OceanView"]
          ELSE s.tracks[unwrap(w.track_id).current])
    ELSE FALSE

\* lib.rs 1113-1138
track_setting(w, s) ==
    IF is_some(w.track_id) THEN s.tracks[unwrap(w.track_id).current] ELSE FALSE

\* lib.rs 1108-1139
race_split(w, s) ==
    is_some_and(w.race_completed, LAMBDA value : changed_to(value, TRUE))
        /\ track_setting(w, s)

\* lib.rs 795-1144
split(w, s) ==
    IF is_some(w.game_mode)
    THEN CASE unwrap(w.game_mode).current = "WorldTour" -> world_tour_split(w, s)
           [] unwrap(w.game_mode).current \in {"GandPrix", "SingleRace"} -> race_split(w, s)
           [] OTHER -> FALSE
    ELSE FALSE

\* a reset that fires when the credits start
reset_on_credits(w, s) == is_some_and(w.end_credits, LAMBDA value : changed_to(value, TRUE))

\* lib.rs 1146-1148
reset(w, s) == FALSE

\* an is_loading that reports the game as not loading
is_loading_never(w, s) == Some(FALSE)

\* lib.rs 1150-1152
is_loading(w, s) == Some(TRUE)

\* a game_time that reports the completed segments only
game_time_total(w, s) == Some(w.total_igt)

\* lib.rs 1154-1160
game_time(w, s) == Some(w.progress_igt)

-----------------------------------------------------------------------------
(* The external timer (asr::timer) and the game process *)

\* timer::start()
timer_start(state) == IF state = "NotRunning" THEN "Running" ELSE state

\* a split that leaves the timer NotRunning
timer_split_resetting(state, final) == IF state = "Running" THEN "NotRunning" ELSE state

\* timer::split(): the last segment's split ends the run; only a running timer splits
timer_split(state, final) ==
    IF state = "Running" THEN (IF final THEN "Ended" ELSE "Running") ELSE state

\* timer::reset()
timer_reset(state) == "NotRunning"

\* what the runner does to the timer by hand
UserCommands == {"none", "start", "split_last", "reset", "pause", "resume", "undo_split"}

timer_user(state, cmd) ==
    CASE cmd = "none" -> state
      [] cmd = "start" -> timer_start(state)
      [] cmd = "split_last" -> timer_split(state, TRUE)
      [] cmd = "reset" -> timer_reset(state)
      [] cmd = "pause" -> IF state = "Running" THEN "Paused" ELSE state
      [] cmd = "resume" -> IF state = "Paused" THEN "Running" ELSE state
      [] cmd = "undo_split" -> IF state = "Ended" THEN "Running" ELSE state

-----------------------------------------------------------------------------
(* Memory reads of one tick *)

\* the reads of update_loop that can fail on their own
ReadNames ==
    {"run_start", "run_start_2", "end_credits", "mode_select",
     "player_link1", "player_link2", "player_link3", "required_laps", "total_race_time",
     "race_completed", "race_status", "igt", "event_type", "track_id",
     "sunshine_coast_ptr", "sunshine_coast", "moonlight_park_ptr", "moonlight_park",
     "superstar_showdown_ptr", "superstar_showdown"}

\* the result of reading `name`, whose value in game memory is v[name]
read(v, failed, name) == IF name \in failed THEN Err ELSE Ok(v[name])

\* lib.rs 553-555: how many of the three pointer reads succeed, in order
player_links(failed) ==
    IF "player_link1" \in failed THEN 0
    ELSE IF "player_link2" \in failed THEN 1
    ELSE IF "player_link3" \in failed THEN 2
    ELSE 3

\* the results of the reads of one tick: game memory holds v, the reads in `failed`
\* fail; a read the code does not reach, or makes at address 0, is recorded as failed
ReadResults(v, failed) ==
    [run_start |-> read(v, failed, "run_start"),
     run_start_2 |-> read(v, failed, "run_start_2"),
     end_credits |-> read(v, failed, "end_credits"),
     mode_select |-> read(v, failed, "mode_select"),
     player_links |-> player_links(failed),
     required_laps |->
        IF player_links(failed) = 3 THEN read(v, failed, "required_laps") ELSE Err,
     total_race_time |->
        IF player_links(failed) = 3 THEN read(v, failed, "total_race_time") ELSE Err,
     race_completed |-> read(v, failed, "race_completed"),
     race_status |-> read(v, failed, "race_status"),
     igt |-> read(v, failed, "igt"),
     event_type |-> read(v, failed, "event_type"),
     track_id |-> read(v, failed, "track_id"),
     sunshine_coast_ptr |-> "sunshine_coast_ptr" \notin failed,
     sunshine_coast |->
        IF {"sunshine_coast_ptr", "sunshine_coast"} \cap failed = {}
        THEN Ok([coastal_cruise |-> v.coastal_cruise, canyon_carnage |-> v.canyon_carnage])
        ELSE Err,
     moonlight_park_ptr |-> "moonlight_park_ptr" \notin failed,
     moonlight_park |->
        IF {"moonlight_park_ptr", "moonlight_park"} \cap failed = {}
        THEN Ok([arcade_annihilation |-> v.arcade_annihilation])
        ELSE Err,
     superstar_showdown_ptr |-> "superstar_showdown_ptr" \notin failed,
     superstar_showdown |->
        IF {"superstar_showdown_ptr", "superstar_showdown"} \cap failed = {}
        THEN Ok([fatal_finale |-> v.fatal_finale])
        ELSE Err]

\* game memory in which nothing happens
QuietMemory ==
    [run_start |-> 0, run_start_2 |-> 0, end_credits |-> FALSE, mode_select |-> 0,
     required_laps |-> 0, total_race_time |-> 0, race_completed |-> FALSE,
     race_status |-> 0, igt |-> 0, event_type |-> ZeroId, track_id |-> "0xD4257EBD",
     coastal_cruise |-> 0, canyon_carnage |-> 0, arcade_annihilation |-> 0,
     fatal_finale |-> 0]

\* every read failed: before the first tick, and when the process is gone during one
NoInput == ReadResults(QuietMemory, ReadNames)

-----------------------------------------------------------------------------
(* main (lib.rs 25-88) *)

\* a decision engine that takes the run-start edge when it reads it: the pair is left
\* with old = current
engine_consuming(w, s) ==
    [is_loading |-> is_loading(w, s),
     game_time |-> game_time(w, s),
     reset |-> reset(w, s),
     start |-> start(w, s),
     split |-> split(w, s),
     watchers |-> IF is_some(w.run_start)
                  THEN [w EXCEPT !.run_start =
                            Some(Pair(unwrap(w.run_start).current, unwrap(w.run_start).current))]
                  ELSE w,
     settings |-> s]

\* lib.rs 763-1160: the five decision functions on one Watchers and one Settings, and
\* the two as the calls leave them; each function borrows both immutably (&Watchers,
\* &Settings) and Pair's changed, changed_to and increased take &self
engine(w, s) ==
    [is_loading |-> is_loading(w, s),
     game_time |-> game_time(w, s),
     reset |-> reset(w, s),
     start |-> start(w, s),
     split |-> split(w, s),
     watchers |-> w,
     settings |-> s]

\* the decisions of a tick with start not gated on the state of the timer
decisions_ungated(w, s, state, final) ==
    LET active == state \in {"Running", "Paused"}
        loading == is_loading(w, s)
        time == game_time(w, s)
        pause_or_resume ==
            IF is_some(loading)
            THEN (IF unwrap(loading)
                  THEN <<"timer::pause_game_time">>
                  ELSE <<"timer::resume_game_time">>)
            ELSE <<>>
        do_reset == active /\ reset(w, s)
        do_split == active /\ ~reset(w, s) /\ split(w, s)
        running_calls ==
            IF active
            THEN <<"is_loading">> \o pause_or_resume
                 \o <<"game_time">>
                 \o (IF is_some(time) THEN <<"timer::set_game_time">> ELSE <<>>)
                 \o <<"reset">>
                 \o (IF reset(w, s)
                     THEN <<"timer::reset">>
                     ELSE <<"split">>
                          \o (IF split(w, s) THEN <<"timer::split">> ELSE <<>>))
            ELSE <<>>
        state2 ==
            IF do_reset THEN timer_reset(state)
            ELSE IF do_split THEN timer_split(state, final)
            ELSE state
        do_start == start(w, s)
        start_calls ==
            IF TRUE
            THEN <<"start">>
                 \o (IF start(w, s)
                     THEN <<"timer::start", "timer::pause_game_time", "is_loading">>
                          \o pause_or_resume
                     ELSE <<>>)
            ELSE <<>>
    IN  [timer |-> IF do_start THEN "Running" ELSE state2,
         calls |-> running_calls \o start_calls,
         seen |-> <<state, state2>>,
         setTime |-> IF active THEN time ELSE None]

\* lib.rs 49-81: the decisions of one tick, after update_loop; `final` tells whether a
\* split issued now is the run's last
decisions(w, s, state, final) ==
    LET active == state \in {"Running", "Paused"}
        loading == is_loading(w, s)
        time == game_time(w, s)
        pause_or_resume ==
            IF is_some(loading)
            THEN (IF unwrap(loading)
                  THEN <<"timer::pause_game_time">>
                  ELSE <<"timer::resume_game_time">>)
            ELSE <<>>
        do_reset == active /\ reset(w, s)
        do_split == active /\ ~reset(w, s) /\ split(w, s)
        running_calls ==
            IF active
            THEN <<"is_loading">> \o pause_or_resume
                 \o <<"game_time">>
                 \o (IF is_some(time) THEN <<"timer::set_game_time">> ELSE <<>>)
                 \o <<"reset">>
                 \o (IF reset(w, s)
                     THEN <<"timer::reset">>
                     ELSE <<"split">>
                          \o (IF split(w, s) THEN <<"timer::split">> ELSE <<>>))
            ELSE <<>>
        state2 ==
            IF do_reset THEN timer_reset(state)
            ELSE IF do_split THEN timer_split(state, final)
            ELSE state
        do_start == state2 = "NotRunning" /\ start(w, s)
        start_calls ==
            IF state2 = "NotRunning"
            THEN <<"start">>
                 \o (IF start(w, s)
                     THEN <<"timer::start", "timer::pause_game_time", "is_loading">>
                          \o pause_or_resume
                     ELSE <<>>)
            ELSE <<>>
    IN  [timer |-> IF do_start THEN timer_start(state2) ELSE state2,
         calls |-> running_calls \o start_calls,
         seen |-> <<state, state2>>,
         setTime |-> IF active THEN time ELSE None]

\* struct Addresses (lib.rs 417-428)
AddressFields ==
    <<"run_start", "run_start_2", "end_credits", "mode_select", "player_base",
      "race_completed", "race_status", "igt", "event_type", "sunshine_coast">>

\* the fallible steps of Addresses::init in the order of lib.rs 431-499: the module
\* lookup, the size of the image, the read of the machine type and its comparison with
\* X86, then for each field its signature scan and the read of the pointer found
Step(op, of) == [op |-> op, of |-> of]

InitSequence ==
    <<Step("get_module_address", "image"), Step("read_size_of_image", "image"),
      Step("MachineType::read", "image"), Step("MachineType::X86", "image")>>
    \o [i \in 1 .. 2 * Len(AddressFields) |->
            IF i % 2 = 1
            THEN Step("scan", AddressFields[(i + 1) \div 2])
            ELSE Step("read", AddressFields[i \div 2])]

\* a step of Addresses::init ignoring the outcome of the machine-type comparison
init_from_unchecked(i, failing) ==
    LET RECURSIVE go(_)
        go(j) == IF j > Len(InitSequence)
                 THEN Some(AddressFields)
                 ELSE IF InitSequence[j] \in failing
                         /\ InitSequence[j].op # "MachineType::X86"
                 THEN None
                 ELSE go(j + 1)
    IN  go(i)

\* lib.rs 431-513 from step i on: the first failing step returns None (`?`, lib.rs
\* 436-438), and Some(Self {..}) is built after the last
init_from(i, failing) ==
    LET RECURSIVE go(_)
        go(j) == IF j > Len(InitSequence)
                 THEN Some(AddressFields)
                 ELSE IF InitSequence[j] \in failing
                 THEN None
                 ELSE go(j + 1)
    IN  go(i)

\* Addresses::init (lib.rs 430-514) on an image where the steps of `failing` fail
addresses_init(failing) == init_from(1, failing)

\* the images an attempt may find: sound, one step failing, several steps failing
InitFailures ==
    {{}} \cup {{InitSequence[i]} : i \in DOMAIN InitSequence}
    \cup {{Step("MachineType::X86", "image"), Step("read", "igt")},
          {Step("scan", "run_start"), Step("scan", "sunshine_coast")}}

\* Watchers::default() hoisted out of the attachment: the watchers outlive the process
Attach_stale ==
    /\ pc = "attach"
    /\ pc' = "init"
    /\ alive' = TRUE
    /\ calls' = calls \o <<"Process::wait_attach", "Watchers::default">>
    /\ ref' = [ref EXCEPT !.watchers = WatchersDefault]
    /\ addresses' = None
    /\ UNCHANGED <<watchers, settings, timer, inp, seen, setTime, image>>

\* lib.rs 30-35: the process appears, wait_attach returns and the attachment's
\* future starts with its own Watchers
Attach ==
    /\ pc = "attach"
    /\ pc' = "init"
    /\ alive' = TRUE
    /\ watchers' = WatchersDefault
    /\ calls' = calls \o <<"Process::wait_attach", "Watchers::default">>
    /\ ref' = [ref EXCEPT !.watchers = WatchersDefault]
    /\ addresses' = None
    /\ UNCHANGED <<settings, timer, inp, seen, setTime, image>>

\* lib.rs 38: one attempt of retry(|| Addresses::init(&process)); a failed attempt
\* awaits the next tick
InitAttempt ==
    /\ pc = "init"
    /\ \E failing \in InitFailures :
        /\ image' = failing
        /\ addresses' = addresses_init(failing)
        /\ pc' = IF is_some(addresses') THEN "update" ELSE "retry"
    /\ calls' = calls \o <<"Addresses::init">>
    /\ UNCHANGED <<alive, watchers, settings, timer, inp, seen, setTime, ref>>

\* the scheduler polls the attachment's future again and it resumes after its await
\* (lib.rs 38, 83); since the last poll the runner may have operated the timer
Poll(D) ==
    /\ pc \in {"retry", "yield"}
    /\ pc' = IF pc = "retry" THEN "init" ELSE "update"
    /\ \E cmd \in UserCommands :
        /\ timer' = timer_user(timer, cmd)
        /\ ref' = IF D.reference
                  THEN [ref EXCEPT !.timer = timer_user(ref.timer, cmd)]
                  ELSE ref
    /\ inp' = NoInput
    /\ calls' = <<>>
    /\ seen' = <<>>
    /\ setTime' = None
    /\ image' = {}
    /\ UNCHANGED <<alive, watchers, settings, addresses>>

\* an until_closes that drops the tick loop wherever it is, also between update_loop
\* and the decisions of the tick
Closed_anywhere ==
    /\ pc \in {"retry", "yield", "decide"}
    /\ pc' = "attach"
    /\ alive' = FALSE
    /\ inp' = NoInput
    /\ calls' = <<"until_closes">>
    /\ seen' = <<>>
    /\ setTime' = None
    /\ addresses' = None
    /\ image' = {}
    /\ UNCHANGED <<watchers, settings, timer, ref>>

\* the attachment's future not wrapped in until_closes: the exit of the process goes
\* unnoticed and the tick loop goes on
Closed_unnoticed ==
    /\ pc \in {"retry", "yield"}
    /\ alive
    /\ pc' = IF pc = "retry" THEN "init" ELSE "update"
    /\ alive' = FALSE
    /\ inp' = NoInput
    /\ calls' = <<>>
    /\ seen' = <<>>
    /\ setTime' = None
    /\ image' = {}
    /\ UNCHANGED <<watchers, settings, timer, ref, addresses>>

\* the process has exited: until_closes (lib.rs 32-33) finds it closed at the next
\* poll and drops the attachment's future, and main waits for the process again
Closed ==
    /\ pc \in {"retry", "yield"}
    /\ pc' = "attach"
    /\ alive' = FALSE
    /\ inp' = NoInput
    /\ calls' = <<"until_closes">>
    /\ seen' = <<>>
    /\ setTime' = None
    /\ addresses' = None
    /\ image' = {}
    /\ UNCHANGED <<watchers, settings, timer, ref>>

\* lib.rs 47: update_loop, with the memory and the read failures of domain D
UpdateLoop(D) ==
    /\ pc = "update"
    /\ \E i \in D.inputs :
        /\ inp' = ReadResults(i.v, i.failed)
        /\ watchers' = update_loop(watchers, inp', timer)
        /\ watchers'.total_igt <= MaxIgtSteps * 10
        /\ watchers'.total_igt >= -(MaxIgtSteps * 10)
        /\ ref' = IF D.reference
                  THEN [ref EXCEPT !.watchers =
                            update_loop(ref.watchers, ReadResults(i.v, {}), ref.timer)]
                  ELSE ref
        /\ ref'.watchers.total_igt <= MaxIgtSteps * 10
    /\ pc' = "decide"
    /\ calls' = calls \o <<"update_loop">>
    /\ seen' = <<timer>>
    /\ setTime' = None
    /\ UNCHANGED <<alive, settings, timer, addresses, image>>

\* lib.rs 49-83: the decisions of the tick, then next_tick().await
Decide(D) ==
    /\ pc = "decide"
    /\ \E final \in BOOLEAN :
        \E d \in {decisions(watchers, settings, timer, final)} :
            /\ timer' = d.timer
            /\ calls' = calls \o d.calls
            /\ seen' = seen \o d.seen
            /\ setTime' = d.setTime
            /\ ref' = IF D.reference
                      THEN LET r == decisions(ref.watchers, settings, ref.timer, final)
                           IN  [ref EXCEPT !.timer = r.timer, !.calls = r.calls,
                                           !.seen = r.seen]
                      ELSE ref
    /\ pc' = "yield"
    /\ UNCHANGED <<alive, watchers, settings, inp, addresses, image>>

InitState(D) ==
    /\ pc = "attach"
    /\ alive = FALSE
    /\ watchers = WatchersDefault
    /\ settings \in D.settings
    /\ timer \in TimerStates
    /\ inp = NoInput
    /\ calls = <<>>
    /\ seen = <<>>
    /\ setTime = None
    /\ ref = [watchers |-> WatchersDefault, timer |-> timer, calls |-> <<>>,
              seen |-> <<>>]
    /\ addresses = None
    /\ image = {}

NextState(D) ==
    \/ Attach
    \/ InitAttempt
    \/ Poll(D)
    \/ Closed
    \/ UpdateLoop(D)
    \/ Decide(D)

-----------------------------------------------------------------------------
(* Specifications: main over bounded sets of game memory and read failures *)

\* every flag of Settings set, auto start included
AllEnabled == MakeSettings(TRUE, Counters, Tracks)

\* a reading of memory that succeeds everywhere
Reads(v) == [v |-> v, failed |-> {}]

\* game memory that differs from QuietMemory in one field
OneFieldMemory ==
    {[QuietMemory EXCEPT !.run_start = 1], [QuietMemory EXCEPT !.run_start_2 = 1],
     [QuietMemory EXCEPT !.end_credits = TRUE],
     [QuietMemory EXCEPT !.required_laps = NoLapCount],
     [QuietMemory EXCEPT !.total_race_time = 25],
     [QuietMemory EXCEPT !.race_completed = TRUE],
     [QuietMemory EXCEPT !.race_status = SegmentFinished],
     [QuietMemory EXCEPT !.igt = 19],
     [QuietMemory EXCEPT !.event_type = MarathonEvent],
     [QuietMemory EXCEPT !.canyon_carnage = 1],
     [QuietMemory EXCEPT !.arcade_annihilation = FinalStage],
     [QuietMemory EXCEPT !.fatal_finale = FinalStage]}
    \cup {[QuietMemory EXCEPT !.mode_select = b] : b \in {1, 2, 3, 7}}
    \cup {[QuietMemory EXCEPT !.track_id = id] : id \in {"0x32D305A8", "0xFFFFFFFF"}}
    \cup {[QuietMemory EXCEPT !.coastal_cruise = n] : n \in {3, 4}}

\* a race of Grand-Prix mode: the run starts, the race completes
GrandPrixMemory ==
    {[QuietMemory EXCEPT !.mode_select = 1, !.run_start = 1, !.run_start_2 = 1],
     [QuietMemory EXCEPT !.mode_select = 1, !.race_completed = TRUE]}

MainInputs ==
    {Reads(v) : v \in {QuietMemory} \cup OneFieldMemory \cup GrandPrixMemory}
    \cup {[v |-> QuietMemory, failed |-> failed] :
            failed \in {{"mode_select"}, {"track_id"}, ReadNames}}
    \cup {Reads([QuietMemory EXCEPT !.mode_select = 7, !.track_id = "0x32D305A8"])}

MainDomain ==
    [inputs |-> MainInputs, settings |-> {AllEnabled}, reference |-> FALSE]

Init == InitState(MainDomain)

Next == NextState(MainDomain)

Spec == Init /\ [][Next]_vars

\* SpecStart: the two run-start flags and the mode byte take every combination, the
\* World-Tour gate opens and closes, auto start is enabled or not
StartMemory ==
    {[QuietMemory EXCEPT !.run_start = a, !.run_start_2 = b, !.mode_select = m] :
        a \in {0, 1}, b \in {0, 1}, m \in {0, 1, 2, 3}}
    \cup {[QuietMemory EXCEPT !.run_start = 1, !.run_start_2 = 1,
                              !.coastal_cruise = n, !.canyon_carnage = k] :
            n \in {0, 1}, k \in {0, 1}}

StartInputs ==
    {Reads(v) : v \in StartMemory}
    \cup {[v |-> [QuietMemory EXCEPT !.run_start = 1, !.run_start_2 = 1, !.mode_select = 3],
           failed |-> failed] : failed \in {{"run_start"}, {"mode_select"}}}
    \cup {Reads([QuietMemory EXCEPT !.run_start = 2, !.run_start_2 = 1, !.mode_select = 1])}
    \cup {Reads([QuietMemory EXCEPT !.run_start = 1, !.run_start_2 = 1, !.mode_select = 2,
                                    !.race_completed = TRUE, !.end_credits = TRUE,
                                    !.coastal_cruise = 1, !.arcade_annihilation = FinalStage])}
    \cup {Reads([QuietMemory EXCEPT !.run_start = 1, !.run_start_2 = 1, !.mode_select = 1,
                                    !.race_completed = TRUE])}

StartDomain ==
    [inputs |-> StartInputs,
     settings |-> {AllEnabled, MakeSettings(FALSE, Counters, Tracks)},
     reference |-> FALSE]

InitStart == InitState(StartDomain)

NextStart == NextState(StartDomain)

SpecStart == InitStart /\ [][NextStart]_vars

\* SpecSplit: World-Tour counters rise, the credits roll, Grand-Prix races complete
WorldTourMemory ==
    {[QuietMemory EXCEPT !.coastal_cruise = n, !.canyon_carnage = k] :
        n \in {0, 1, 3, 4}, k \in {0, 1}}
    \cup {[QuietMemory EXCEPT !.arcade_annihilation = n, !.end_credits = c] :
            n \in {3, 4}, c \in BOOLEAN}
    \cup {[QuietMemory EXCEPT !.fatal_finale = n, !.end_credits = c] :
            n \in {3, 4}, c \in BOOLEAN}
    \cup {[QuietMemory EXCEPT !.run_start = 1, !.run_start_2 = 1]}

RaceMemory ==
    {[QuietMemory EXCEPT !.mode_select = m, !.race_completed = c, !.track_id = id] :
        m \in {1, 3}, c \in BOOLEAN, id \in {"0xD4257EBD", "0x32D305A8"}}
    \cup {[QuietMemory EXCEPT !.mode_select = 2, !.race_completed = c, !.coastal_cruise = 1] :
            c \in BOOLEAN}
    \cup {[QuietMemory EXCEPT !.mode_select = 1, !.coastal_cruise = 1,
                              !.end_credits = TRUE, !.arcade_annihilation = FinalStage]}

SplitInputs == {Reads(v) : v \in WorldTourMemory \cup RaceMemory}

SplitDomain ==
    [inputs |-> SplitInputs,
     settings |-> {AllEnabled,
                   MakeSettings(TRUE, {"canyon_carnage"}, Tracks \ {"SambaStudios"})},
     reference |-> FALSE]

InitSplit == InitState(SplitDomain)

NextSplit == NextState(SplitDomain)

SpecSplit == InitSplit /\ [][NextSplit]_vars

\* SpecIgt: races and segments run, finish and restart; the timer floats also hold
\* negative values
IgtMemory ==
    {[QuietMemory EXCEPT !.igt = t, !.race_status = r] :
        t \in {0, 19}, r \in {0, SegmentFinished}}
    \cup {[QuietMemory EXCEPT !.mode_select = 1, !.race_completed = TRUE, !.igt = 19,
                              !.total_race_time = 25],
          [QuietMemory EXCEPT !.race_completed = TRUE, !.igt = 19,
                              !.required_laps = NoLapCount, !.total_race_time = 25],
          [QuietMemory EXCEPT !.mode_select = 1, !.race_completed = TRUE, !.igt = 19,
                              !.event_type = MarathonEvent, !.total_race_time = 25],
          [QuietMemory EXCEPT !.igt = -19],
          [QuietMemory EXCEPT !.mode_select = 1, !.race_completed = TRUE,
                              !.total_race_time = -25]}

IgtInputs ==
    {Reads(v) : v \in IgtMemory}
    \cup {[v |-> [QuietMemory EXCEPT !.mode_select = 1, !.race_completed = TRUE, !.igt = 19,
                                     !.total_race_time = 25],
           failed |-> failed] : failed \in {{"race_completed"}, {"igt"}, {"player_link2"}}}
    \cup {Reads([QuietMemory EXCEPT !.mode_select = 1, !.run_start = 1, !.run_start_2 = 1,
                                    !.igt = 19])}
    \cup {[v |-> QuietMemory, failed |-> {"igt"}]}

IgtDomain ==
    [inputs |-> IgtInputs, settings |-> {AllEnabled}, reference |-> FALSE]

InitIgt == InitState(IgtDomain)

NextIgt == NextState(IgtDomain)

SpecIgt == InitIgt /\ [][NextIgt]_vars

\* SpecFail: a Grand-Prix race and a World-Tour event with reads that fail for a tick,
\* beside the reference run in which the same memory is read without failure
FailMemory ==
    {[QuietMemory EXCEPT !.mode_select = 1, !.race_completed = c] : c \in BOOLEAN}
    \cup {[QuietMemory EXCEPT !.mode_select = 1, !.run_start = 1, !.run_start_2 = 1],
          [QuietMemory EXCEPT !.coastal_cruise = 1]}

FailInputs ==
    {[v |-> v, failed |-> failed] :
        v \in FailMemory,
        failed \in {{}, {"race_completed"}, {"run_start"}, {"sunshine_coast"}}}

FailDomain ==
    [inputs |-> FailInputs, settings |-> {AllEnabled}, reference |-> TRUE]

InitFail == InitState(FailDomain)

NextFail == NextState(FailDomain)

SpecFail == InitFail /\ [][NextFail]_vars

\* SpecCount: Grand-Prix races with a race time, the read of the completion flag
\* failing on some ticks, beside the reference run that reads the same memory without
\* failure
CountMemory ==
    {[QuietMemory EXCEPT !.mode_select = 1, !.race_completed = c, !.total_race_time = 25] :
        c \in BOOLEAN}

CountInputs ==
    {[v |-> v, failed |-> failed] : v \in CountMemory, failed \in {{}, {"race_completed"}}}

CountDomain ==
    [inputs |-> CountInputs, settings |-> {AllEnabled}, reference |-> TRUE]

InitCount == InitState(CountDomain)

NextCount == NextState(CountDomain)

SpecCount == InitCount /\ [][NextCount]_vars

\* SpecLive: the attachment loop under a fair scheduler. The runtime polls the future
\* of main again after every await, and main runs from one await to the next; whether
\* the process appears or exits, and what an attempt of Addresses::init finds, is not
\* the scheduler's to decide.
LiveInputs ==
    {Reads(v) : v \in {QuietMemory} \cup GrandPrixMemory}
    \cup {[v |-> QuietMemory, failed |-> ReadNames]}

LiveDomain ==
    [inputs |-> LiveInputs, settings |-> {AllEnabled}, reference |-> FALSE]

InitLive == InitState(LiveDomain)

NextLive == NextState(LiveDomain)

SpecLive ==
    /\ InitLive
    /\ [][NextLive]_vars
    /\ WF_vars(InitAttempt)
    /\ WF_vars(Poll(LiveDomain))
    /\ WF_vars(UpdateLoop(LiveDomain))
    /\ WF_vars(Decide(LiveDomain))

\* SpecPure: start and split applied to Watchers values with pairs absent, which the
\* functions accept although update_loop fills every pair before they are called
PureWatchers ==
    {[WatchersDefault EXCEPT !.run_start = a, !.game_mode = b, !.coastal_cruise = c,
                             !.canyon_carnage = d, !.race_completed = e,
                             !.track_id = f, !.end_credits = g,
                             !.arcade_annihilation = h, !.fatal_finale = i] :
        a \in {None, Some(Pair(FALSE, TRUE))},
        b \in {None, Some(Pair("WorldTour", "WorldTour")), Some(Pair("GandPrix", "GandPrix"))},
        c \in {None, Some(Pair(0, 0)), Some(Pair(0, 1))},
        d \in {None, Some(Pair(0, 0))},
        e \in {None, Some(Pair(FALSE, TRUE))},
        f \in {None, Some(Pair("OceanView", "OceanView"))},
        g \in {None, Some(Pair(FALSE, TRUE))},
        h \in {None, Some(Pair(3, 3))},
        i \in {None, Some(Pair(FinalStage, FinalStage))}}

InitPure ==
    /\ pc = "decide"
    /\ alive = TRUE
    /\ watchers \in PureWatchers
    /\ settings = AllEnabled
    /\ timer \in TimerStates
    /\ inp = NoInput
    /\ calls = <<"update_loop">>
    /\ seen = <<timer>>
    /\ setTime = None
    /\ ref = [watchers |-> WatchersDefault, timer |-> timer, calls |-> <<>>,
              seen |-> <<>>]
    /\ addresses = Some(AddressFields)
    /\ image = {}

NextPure == Decide(MainDomain)

SpecPure == InitPure /\ [][NextPure]_vars

-----------------------------------------------------------------------------
(* Properties *)

Issued(op, log) == \E i \in DOMAIN log : log[i] = op

\* the step of update_loop
UpdateStep == pc = "update" /\ pc' = "decide"

\* the timer calls that act on the run
TimingCalls == {"timer::start", "timer::split", "timer::reset"}

\* C1: read failures only stall the timing decisions: in a tick that the run and the
\* reference run (same memory, no failed read) begin with the timer in the same state,
\* the run issues no timer start, split or reset that the reference run does not issue.
C1_FailuresOnlyStall ==
    (pc = "yield" /\ seen[2] = ref.seen[1])
        => \A op \in TimingCalls : Issued(op, calls) => Issued(op, ref.calls)

\* C2 as claimed: while the timer is not NotRunning, an update_loop never decreases
\* total_igt.
C2_TotalNeverDecreases ==
    [][(UpdateStep /\ timer # "NotRunning")
        => watchers'.total_igt >= watchers.total_igt]_vars

\* the raw-timer samples of the last two ticks and the total-race-time sample
NonNegativeTimes(w) ==
    /\ unwrap(w.igt).old >= 0
    /\ unwrap(w.igt).current >= 0
    /\ unwrap(w.total_race_time).current >= 0

\* C2 restricted to times that are not negative: while the timer is not NotRunning, an
\* update_loop whose raw-timer and total-race-time samples are not negative never
\* decreases total_igt.
C2_TotalNeverDecreasesNonNegative ==
    [][(UpdateStep /\ timer # "NotRunning" /\ NonNegativeTimes(watchers'))
        => watchers'.total_igt >= watchers.total_igt]_vars

\* the watchers hold the samples of a tick
Sampled == pc \in {"decide", "yield"}

pair_is(watcher, old, current) == is_some(watcher) /\ unwrap(watcher) = Pair(old, current)

mode_in(w, modes) == is_some(w.game_mode) /\ unwrap(w.game_mode).current \in modes

RaceModes == {"GandPrix", "SingleRace"}

\* C3: with the start setting enabled and the mode Grand-Prix or Single-Race, start() is
\* true exactly on the ticks whose run-start pair is (false, true): it is true on the
\* tick that samples true after a tick that sampled false, and of two consecutive
\* ticks (the tick before a transition and the transition, the transition and the tick
\* after it) at most one has start() true.
C3_StartOnTransition ==
    /\ []((Sampled /\ settings.start /\ mode_in(watchers, RaceModes))
            => (start(watchers, settings) <=> pair_is(watchers.run_start, FALSE, TRUE)))
    /\ [][(UpdateStep /\ settings.start /\ mode_in(watchers', RaceModes)
              /\ is_some(watchers.run_start))
            => /\ (~unwrap(watchers.run_start).current /\ run_start_sample(inp'))
                    => start(watchers', settings)
               /\ (mode_in(watchers, RaceModes) /\ start(watchers, settings))
                    => ~start(watchers', settings)
               /\ start(watchers', settings) => ~start(watchers, settings)]_vars

\* C3 witness: a Grand-Prix or Single-Race tick has started the timer
C3_Witness ==
    /\ pc = "yield"
    /\ mode_in(watchers, RaceModes)
    /\ pair_is(watchers.run_start, FALSE, TRUE)
    /\ Issued("timer::start", calls)

\* no watcher's sample differs from its sample of the tick before
NoChange(w) == \A k \in WatcherNames : is_some(w[k]) => ~changed(unwrap(w[k]))

\* the World-Tour split rule over the counters ks: in a World-Tour tick split() is true
\* if an enabled counter of ks increased, and split() is false on the tick after a
\* split if no sample changed
EdgeTriggered(ks) ==
    UpdateStep
        => /\ mode_in(watchers', {"WorldTour"})
                => \A k \in ks :
                       (settings[k] /\ increased(unwrap(watchers'[k])))
                           => split(watchers', settings)
           /\ (split(watchers, settings) /\ NoChange(watchers'))
                => ~split(watchers', settings)

\* C4 as claimed: the World-Tour split rule holds of every enabled per-segment counter.
C4_EdgeTriggeredEveryCounter == [][EdgeTriggered(Counters)]_vars

\* the counters whose completion is not signalled by the final-stage value
OrdinaryCounters == Counters \ {"arcade_annihilation", "fatal_finale"}

\* C4 amended: the World-Tour split rule holds of every enabled per-segment counter
\* other than arcade_annihilation and fatal_finale.
C4_EdgeTriggeredOrdinaryCounter == [][EdgeTriggered(OrdinaryCounters)]_vars

\* C4 witness: World Tour, coastal_cruise sampled 3 then 4, and split() is true
C4_Witness ==
    /\ pc = "decide"
    /\ mode_in(watchers, {"WorldTour"})
    /\ settings.coastal_cruise
    /\ pair_is(watchers.coastal_cruise, 3, 4)
    /\ split(watchers, settings)

\* what the scenario of C5 holds fixed at a tick: World Tour, every segment enabled,
\* canyon_carnage at 0, the credits not rolling, no other counter moving and no edge of
\* the run-start flag
Scenario(w) ==
    /\ settings = AllEnabled
    /\ mode_in(w, {"WorldTour"})
    /\ is_some_and(w.canyon_carnage, LAMBDA value : value.current = 0)
    /\ is_some_and(w.end_credits, LAMBDA value : ~value.current)
    /\ \A k \in Counters \ {"coastal_cruise", "canyon_carnage"} :
           is_some_and(w[k], LAMBDA value : ~changed(value))
    /\ ~pair_is(w.run_start, FALSE, TRUE)

\* C5: in the scenario, a tick that samples coastal_cruise 0 has start() and split()
\* false; when coastal_cruise was sampled 0 then 0 and the next tick samples 1, that
\* tick's pair is (0, 1) and it has split() true and start() false.
C5_CoastalCruiseScenario ==
    /\ []((Sampled /\ Scenario(watchers)
              /\ is_some_and(watchers.coastal_cruise, LAMBDA value : value.current = 0))
            => (~start(watchers, settings) /\ ~split(watchers, settings)))
    /\ [][(UpdateStep /\ Scenario(watchers) /\ Scenario(watchers')
              /\ pair_is(watchers.coastal_cruise, 0, 0)
              /\ inp'.sunshine_coast.ok /\ inp'.sunshine_coast.val.coastal_cruise = 1)
            => /\ pair_is(watchers'.coastal_cruise, 0, 1)
               /\ split(watchers', settings)
               /\ ~start(watchers', settings)]_vars

\* C5 witness: the third tick of the scenario has called timer::split
C5_Witness ==
    /\ pc = "yield"
    /\ Scenario(watchers)
    /\ pair_is(watchers.coastal_cruise, 0, 1)
    /\ pair_is(watchers.canyon_carnage, 0, 0)
    /\ pair_is(watchers.end_credits, FALSE, FALSE)
    /\ Issued("timer::split", calls)
    /\ ~Issued("timer::start", calls)

\* the raw mode byte, or the raw track identifier, read by a tick names no variant
mode_unknown(in) == ~in.mode_select.ok \/ ~is_some(GameModeOfByte(in.mode_select.val))

track_unknown(in) == ~in.track_id.ok \/ ~is_some(TrackOfId(in.track_id.val))

\* C6: a tick whose raw mode byte (raw track identifier) is unmapped or unreadable leaves
\* the current classification of the mode (track) watcher as it was before the tick, and
\* gives it the baseline, WorldTour (OceanView), only when the watcher had no pair.
C6_StickyOnUnknown ==
    [][UpdateStep
        => /\ mode_unknown(inp')
                => unwrap(watchers'.game_mode).current
                       = IF is_some(watchers.game_mode)
                         THEN unwrap(watchers.game_mode).current
                         ELSE "WorldTour"
           /\ track_unknown(inp')
                => unwrap(watchers'.track_id).current
                       = IF is_some(watchers.track_id)
                         THEN unwrap(watchers.track_id).current
                         ELSE "OceanView"]_vars

\* C6 witness: mode and track are unreadable and both keep a classification that is
\* not the baseline
C6_Witness ==
    /\ pc = "decide"
    /\ ~inp.mode_select.ok
    /\ ~inp.track_id.ok
    /\ pair_is(watchers.game_mode, "SingleRace", "SingleRace")
    /\ pair_is(watchers.track_id, "SambaStudios", "SambaStudios")

\* values a watcher is compared with, of the watcher's type
Values(k) ==
    CASE k \in {"run_start", "end_credits", "race_completed"} -> BOOLEAN
      [] k = "game_mode" -> GameModes
      [] k = "track_id" -> Tracks
      [] k = "event_type" -> {ZeroId, MarathonEvent}
      [] OTHER -> {0, 1, 3, SegmentFinished, 10, 20, NoLapCount}

\* the watchers whose samples are ordered
Ordered == WatcherNames \ {"run_start", "end_credits", "race_completed", "game_mode",
                           "track_id", "event_type"}

\* C7: after a tick every watcher's pair is (the previous tick's sample, this tick's
\* sample); changed_to(v) is true iff the previous sample is not v and this sample is v;
\* increased() is true iff this sample is greater than the previous one.
C7_PairOfLastTwoSamples ==
    [][UpdateStep
        => \E s \in {Samples(watchers, inp')} :
              \A k \in WatcherNames :
                  /\ is_some(watchers'[k])
                  /\ unwrap(watchers'[k]).current = s[k]
                  /\ is_some(watchers[k])
                       => \E sm \in {unwrap(watchers[k]).current},
                             pair \in {unwrap(watchers'[k])} :
                              /\ pair.old = sm
                              /\ \A v \in Values(k) \cup {sm, s[k]} :
                                     changed_to(pair, v) <=> (sm # v /\ s[k] = v)
                              /\ k \in Ordered => (increased(pair) <=> s[k] > sm)]_vars

\* C7 witness: a later tick of an attachment sampled race_status 0 after 4
C7_Witness ==
    /\ pc = "decide"
    /\ ~Issued("Addresses::init", calls)
    /\ pair_is(watchers.race_status, SegmentFinished, 0)
    /\ changed_to(unwrap(watchers.race_status), 0)
    /\ ~increased(unwrap(watchers.race_status))

absent(k) == ~is_some(watchers[k])

\* C8: a decision does not act on an absent pair. With the run-start or the game-mode
\* pair absent start() is false and timer::start is not called; with the game-mode pair
\* absent split() is false and timer::split is not called; an absent counter leaves
\* split() as it is with that counter disabled; with the race-completion or the track
\* pair absent a race mode does not split; an absent end-credits pair leaves split() as
\* it is with the credits not rolling; with coastal_cruise or canyon_carnage absent the
\* World-Tour start gate is closed.
C8_AbsentPairsDoNotAct ==
    /\ (absent("run_start") \/ absent("game_mode"))
          => (~start(watchers, settings) /\ ~Issued("timer::start", calls))
    /\ absent("game_mode")
          => (~split(watchers, settings) /\ ~Issued("timer::split", calls))
    /\ \A k \in Counters :
          absent(k) => (split(watchers, settings)
                            <=> split(watchers, [settings EXCEPT ![k] = FALSE]))
    /\ ((absent("race_completed") \/ absent("track_id")) /\ mode_in(watchers, RaceModes))
          => (~split(watchers, settings) /\ ~Issued("timer::split", calls))
    /\ absent("end_credits")
          => (split(watchers, settings)
                <=> split([watchers EXCEPT !.end_credits = Some(Pair(FALSE, FALSE))],
                          settings))
    /\ (absent("coastal_cruise") \/ absent("canyon_carnage"))
          => /\ ~fresh_save(watchers)
             /\ mode_in(watchers, {"WorldTour"})
                  => (~start(watchers, settings) /\ ~Issued("timer::start", calls))

\* C8 witness: start was evaluated on a run-start edge with the game-mode pair absent,
\* and the timer was not started
C8_Witness ==
    /\ pc = "yield"
    /\ absent("game_mode")
    /\ pair_is(watchers.run_start, FALSE, TRUE)
    /\ Issued("start", calls)
    /\ ~Issued("timer::start", calls)

\* the first tick of an attachment: Addresses::init returned in the same poll
FirstTick == Sampled /\ Issued("Addresses::init", calls)

\* C9: from the attachment to its first update_loop the watchers are
\* Watchers::default() (every pair absent, both accumulators zero); on the first tick
\* every pair has old = current, start() and split() are false and neither timer::start
\* nor timer::split is called.
C9_FreshAttachment ==
    /\ (pc \in {"init", "retry"} \/ (pc = "update" /\ Issued("Addresses::init", calls)))
          => watchers = WatchersDefault
    /\ FirstTick
          => /\ \A k \in WatcherNames :
                    is_some(watchers[k]) /\ ~changed(unwrap(watchers[k]))
             /\ ~start(watchers, settings)
             /\ ~split(watchers, settings)
             /\ ~Issued("timer::start", calls)
             /\ ~Issued("timer::split", calls)

\* C9 witness: the first tick of a later attachment finds the run-start flag set in
\* Grand-Prix mode, evaluates start and does not start the timer
C9_Witness ==
    /\ pc = "yield"
    /\ FirstTick
    /\ calls[1] = "until_closes"
    /\ pair_is(watchers.run_start, TRUE, TRUE)
    /\ mode_in(watchers, {"GandPrix"})
    /\ Issued("start", calls)
    /\ ~Issued("timer::start", calls)

\* the first place of op in the tick's calls
first(op) == CHOOSE i \in DOMAIN calls : calls[i] = op /\ \A j \in 1 .. (i - 1) : calls[j] # op

\* the decision calls and the timer calls of a tick
TickCalls ==
    {"is_loading", "game_time", "reset", "split", "start", "timer::pause_game_time",
     "timer::resume_game_time", "timer::set_game_time", "timer::reset", "timer::split",
     "timer::start"}

\* C10: at the end of a tick, update_loop was called before every decision; is_loading,
\* game_time and reset were evaluated, in this order, iff the timer was Running or
\* Paused; split was evaluated iff they were and timer::reset was not called; start was
\* evaluated, after them, iff the timer was then NotRunning, and timer::start was
\* called only then.
C10_OrderOfEvaluation ==
    pc = "yield"
        => LET active == seen[2] \in {"Running", "Paused"}
           IN  /\ Issued("update_loop", calls)
               /\ \A op \in TickCalls :
                      Issued(op, calls) => first("update_loop") < first(op)
               /\ Issued("game_time", calls) <=> active
               /\ Issued("reset", calls) <=> active
               /\ active => /\ Issued("is_loading", calls)
                            /\ first("is_loading") < first("game_time")
                            /\ first("game_time") < first("reset")
               /\ (~active /\ Issued("is_loading", calls))
                      => /\ Issued("timer::start", calls)
                         /\ first("timer::start") < first("is_loading")
               /\ Issued("split", calls) <=> (active /\ ~Issued("timer::reset", calls))
               /\ Issued("split", calls) => first("reset") < first("split")
               /\ Issued("timer::reset", calls) => first("reset") < first("timer::reset")
               /\ Issued("timer::split", calls)
                      => (Issued("split", calls) /\ first("split") < first("timer::split"))
               /\ Issued("start", calls) <=> seen[3] = "NotRunning"
               /\ \A op \in {"reset", "split", "timer::split", "timer::reset"} :
                      (Issued("start", calls) /\ Issued(op, calls))
                          => first(op) < first("start")
               /\ Issued("timer::start", calls)
                      => /\ seen[3] = "NotRunning"
                         /\ first("start") < first("timer::start")

\* C10 witness: a tick whose split ended the run did not evaluate start
C10_Witness ==
    /\ pc = "yield"
    /\ seen[2] = "Running"
    /\ seen[3] = "Ended"
    /\ Issued("timer::split", calls)
    /\ ~Issued("start", calls)

\* the calls into the timer
TimerCalls ==
    {"timer::pause_game_time", "timer::resume_game_time", "timer::set_game_time",
     "timer::reset", "timer::split", "timer::start"}

\* C11: an attempt of Addresses::init returns a record iff none of its steps (module
\* lookup, image size, machine type read and 32-bit check, ten signature scans, ten
\* pointer reads) fails, and main goes on to the tick loop iff it did; between the
\* attachment and the record main calls neither update_loop nor the timer, and the tick
\* loop runs only with a record.
C11_InitAllOrNothing ==
    /\ [][(pc = "init" /\ pc' # "init")
            => /\ is_some(addresses')
                    <=> \A i \in DOMAIN InitSequence : InitSequence[i] \notin image'
               /\ pc' = "update" <=> is_some(addresses')
               /\ pc' = "retry" <=> ~is_some(addresses')]_vars
    /\ [](~is_some(addresses)
            => /\ pc \in {"attach", "init", "retry"}
               /\ ~Issued("update_loop", calls)
               /\ \A op \in TimerCalls : ~Issued(op, calls))

\* C11 witness: every step but the last pointer read succeeded and the attempt
\* returned None
C11_Witness ==
    /\ pc = "retry"
    /\ image = {Step("read", "sunshine_coast")}
    /\ addresses = None
    /\ Issued("Addresses::init", calls)

\* C12: when the process exits main leaves the attachment (no record, no tick) and waits
\* for the process; once it is attached again, a tick runs unless the process exits
\* again or Addresses::init fails forever, and after a tick another one runs unless the
\* process exits.
C12_TicksResume ==
    /\ [][(alive /\ ~alive')
            => (pc' = "attach" /\ addresses' = None /\ ~Issued("update_loop", calls'))]_vars
    /\ [](pc = "attach" => ~alive)
    /\ [](pc = "init"
            => (<>(pc = "decide") \/ <>(pc = "attach") \/ []<>(pc = "retry")))
    /\ [](pc = "yield" => <>(pc = "decide" \/ pc = "attach"))

\* C12 witness: the process exited and appeared again, Addresses::init succeeded and a
\* tick has run
C12_Witness ==
    /\ pc = "decide"
    /\ alive
    /\ calls = <<"until_closes", "Process::wait_attach", "Watchers::default",
                 "Addresses::init", "update_loop">>

\* the gate of start on the mode: a race mode, or World Tour with coastal_cruise and
\* canyon_carnage both at 0
ModeGate(w) ==
    \/ mode_in(w, RaceModes)
    \/ /\ mode_in(w, {"WorldTour"})
       /\ is_some(w.coastal_cruise) /\ unwrap(w.coastal_cruise).current = 0
       /\ is_some(w.canyon_carnage) /\ unwrap(w.canyon_carnage).current = 0

\* C13: the run-start sample of a tick is true iff both raw flags read 1; start() is
\* true iff the start setting is enabled, the run-start pair is (false, true) and the
\* mode is Grand-Prix or Single-Race, or World-Tour with coastal_cruise and
\* canyon_carnage both 0; in World-Tour with one of them not 0 start() is false.
C13_StartCondition ==
    /\ [][UpdateStep
            => (unwrap(watchers'.run_start).current
                    <=> (inp'.run_start = Ok(1) /\ inp'.run_start_2 = Ok(1)))]_vars
    /\ [](Sampled
            => /\ start(watchers, settings)
                    <=> /\ settings.start
                        /\ pair_is(watchers.run_start, FALSE, TRUE)
                        /\ ModeGate(watchers)
               /\ (mode_in(watchers, {"WorldTour"})
                       /\ (unwrap(watchers.coastal_cruise).current # 0
                             \/ unwrap(watchers.canyon_carnage).current # 0))
                    => ~start(watchers, settings))

\* C13 witness: a World-Tour tick on a fresh save has started the timer
C13_Witness ==
    /\ pc = "yield"
    /\ mode_in(watchers, {"WorldTour"})
    /\ pair_is(watchers.coastal_cruise, 0, 0)
    /\ pair_is(watchers.canyon_carnage, 0, 0)
    /\ inp.run_start = Ok(1)
    /\ inp.run_start_2 = Ok(1)
    /\ Issued("timer::start", calls)

\* w with no counter moving and the credits not rolling
Flat(w) ==
    [k \in DOMAIN w |->
        IF k \in Counters THEN Some(Pair(0, 0))
        ELSE IF k = "end_credits" THEN Some(Pair(FALSE, FALSE))
        ELSE w[k]]

\* C14: in Grand-Prix and Single-Race mode split() is true iff the race-completion pair
\* is (false, true) and the setting of the track the track watcher currently holds is
\* enabled; split() is what it would be with no counter moving and the credits not
\* rolling, and timer::split is called iff split was evaluated and is true.
C14_RaceSplit ==
    (Sampled /\ mode_in(watchers, RaceModes))
        => /\ split(watchers, settings)
                <=> /\ pair_is(watchers.race_completed, FALSE, TRUE)
                    /\ settings.tracks[unwrap(watchers.track_id).current]
           /\ split(watchers, settings) <=> split(Flat(watchers), settings)
           /\ pc = "yield"
                => (Issued("timer::split", calls)
                        <=> (Issued("split", calls) /\ split(watchers, settings)))

\* C14 witness: in Grand-Prix mode a counter rose and the credits started on a tick
\* that evaluated split and did not split
C14_Witness ==
    /\ pc = "yield"
    /\ mode_in(watchers, {"GandPrix"})
    /\ pair_is(watchers.coastal_cruise, 0, 1)
    /\ pair_is(watchers.end_credits, FALSE, TRUE)
    /\ changed_to(unwrap(watchers.arcade_annihilation), FinalStage)
    /\ Issued("split", calls)
    /\ ~Issued("timer::split", calls)

\* w with counter k not moving
Still(w, k) == [w EXCEPT ![k] = Some(Pair(unwrap(w[k]).current, unwrap(w[k]).current))]

\* C15: in World-Tour mode split() is true when a counter other than arcade_annihilation
\* and fatal_finale whose setting is enabled increased, and the increase of such a
\* counter whose setting is disabled leaves split() what it would be had the counter not
\* moved.
C15_EnabledCounters ==
    (Sampled /\ mode_in(watchers, {"WorldTour"}))
        => \A k \in OrdinaryCounters :
              /\ (settings[k] /\ increased(unwrap(watchers[k])))
                    => split(watchers, settings)
              /\ (~settings[k] /\ increased(unwrap(watchers[k])))
                    => (split(watchers, settings) <=> split(Still(watchers, k), settings))

\* C15 witness: coastal_cruise, disabled, rose on a World-Tour tick that evaluated
\* split and did not split
C15_Witness ==
    /\ pc = "yield"
    /\ mode_in(watchers, {"WorldTour"})
    /\ ~settings.coastal_cruise
    /\ increased(unwrap(watchers.coastal_cruise))
    /\ Issued("split", calls)
    /\ ~Issued("timer::split", calls)

\* arcade_annihilation and fatal_finale
SentinelCounters == Counters \ OrdinaryCounters

\* the rule claimed for a sentinel segment k: split() is true when k goes to 4 and when
\* the credits start while k is not 4
SentinelRule(k) ==
    /\ changed_to(unwrap(watchers[k]), FinalStage) => split(watchers, settings)
    /\ (pair_is(watchers.end_credits, FALSE, TRUE)
            /\ unwrap(watchers[k]).current # FinalStage)
          => split(watchers, settings)

reached(w, k) == changed_to(unwrap(w[k]), FinalStage)

credits(w) == pair_is(w.end_credits, FALSE, TRUE)

\* no counter other than k moved
OthersStill(w, k) == \A j \in Counters \ {k} : ~changed(unwrap(w[j]))

\* one completion of k seen by two consecutive ticks: the counter then the credits,
\* the credits then the counter, or both on the first tick and nothing on the second
CompletionOf(k, w1, w2) ==
    /\ OthersStill(w1, k) /\ OthersStill(w2, k)
    /\ \/ reached(w1, k) /\ ~credits(w1) /\ ~changed(unwrap(w2[k])) /\ credits(w2)
       \/ /\ ~changed(unwrap(w1[k])) /\ unwrap(w1[k]).current # FinalStage /\ credits(w1)
          /\ reached(w2, k) /\ ~credits(w2)
       \/ reached(w1, k) /\ credits(w1) /\ NoChange(w2)

\* C17: in World-Tour mode, of the two consecutive ticks that see one completion of an
\* enabled sentinel segment (in either order of its two signals, or both on one tick,
\* no other counter moving) exactly one has split() true.
C17_OneSplitPerCompletion ==
    [][(UpdateStep /\ mode_in(watchers, {"WorldTour"}) /\ mode_in(watchers', {"WorldTour"}))
        => \A k \in SentinelCounters :
              (settings[k] /\ CompletionOf(k, watchers, watchers'))
                  => (split(watchers, settings) # split(watchers', settings))]_vars

\* C18: while the current game mode is Time-Attack, start() and split() are false on
\* every tick, whatever the run-start, race-completion, end-credits and counter pairs
\* are, and the tick issues neither timer::start nor timer::split.
C18_TimeAttackInert ==
    /\ (Sampled /\ mode_in(watchers, {"TimeAttack"}))
          => ~start(watchers, settings) /\ ~split(watchers, settings)
    /\ (pc = "yield" /\ mode_in(watchers, {"TimeAttack"}))
          => ~Issued("timer::start", calls) /\ ~Issued("timer::split", calls)

C18_Witness ==
    /\ pc = "yield"
    /\ mode_in(watchers, {"TimeAttack"})
    /\ settings = AllEnabled
    /\ pair_is(watchers.run_start, FALSE, TRUE)
    /\ pair_is(watchers.race_completed, FALSE, TRUE)
    /\ pair_is(watchers.end_credits, FALSE, TRUE)
    /\ pair_is(watchers.coastal_cruise, 0, 1)
    /\ pair_is(watchers.arcade_annihilation, 0, FinalStage)
    /\ calls # <<>>

\* C19: an update_loop that finds the timer NotRunning leaves total_igt and
\* progress_igt both zero, whatever it sampled and whatever the two held before; the
\* decisions of that tick see them zero.
C19_ZeroWhenNotRunning ==
    /\ [][(UpdateStep /\ timer = "NotRunning")
            => watchers'.total_igt = 0 /\ watchers'.progress_igt = 0]_vars
    /\ []((pc = "decide" /\ seen = <<"NotRunning">>)
            => watchers.total_igt = 0 /\ watchers.progress_igt = 0)

\* a NotRunning tick that sampled the completion of a race with a race time to add
C19_Witness ==
    /\ pc = "decide"
    /\ seen = <<"NotRunning">>
    /\ mode_in(watchers, {"GandPrix"})
    /\ pair_is(watchers.race_completed, FALSE, TRUE)
    /\ unwrap(watchers.total_race_time).current > 0
    /\ watchers.total_igt = 0
    /\ watchers.progress_igt = 0

\* C20: with the timer running, a completion of a race is added to total_igt once,
\* failed reads of the flag included. The reference run samples the flag of game memory
\* on every tick, so its pair tells where the flag made a transition. A tick before
\* which the run has accumulated a completion and exactly what the reference run has,
\* and on which the flag in memory is true as it was on the two ticks before, adds
\* nothing to total_igt.
C20_OneContributionPerCompletion ==
    [][(/\ UpdateStep
        /\ timer # "NotRunning" /\ ref.timer # "NotRunning"
        /\ watchers.total_igt > 0
        /\ watchers.total_igt = ref.watchers.total_igt
        /\ pair_is(ref.watchers.race_completed, TRUE, TRUE)
        /\ pair_is(ref'.watchers.race_completed, TRUE, TRUE))
        => watchers'.total_igt = watchers.total_igt]_vars

\* the game-time calls of a tick, in the order they were issued
GameTimeCalls == SelectSeq(calls, LAMBDA op : op \in {"timer::pause_game_time",
                                                      "timer::resume_game_time"})

\* the game-time clock as the tick's calls leave it
PausedByTick ==
    GameTimeCalls # <<>> /\ GameTimeCalls[Len(GameTimeCalls)] = "timer::pause_game_time"

\* C21: is_loading is Some(true) for every watchers and settings. At the end of a tick
\* that found the timer Running or Paused, and of a tick that issued timer::start, the
\* last game-time call of the tick is timer::pause_game_time, one of them issued after
\* timer::start; timer::resume_game_time is never issued.
C21_GameTimePaused ==
    /\ Sampled => is_loading(watchers, settings) = Some(TRUE)
    /\ ~Issued("timer::resume_game_time", calls)
    /\ pc = "yield"
          => /\ seen[2] \in {"Running", "Paused"} => PausedByTick
             /\ Issued("timer::start", calls)
                   => /\ PausedByTick
                      /\ \E i \in DOMAIN calls :
                            /\ calls[i] = "timer::pause_game_time"
                            /\ first("timer::start") < i

\* a tick that started the run, and paused the game time after the start
C21_Witness ==
    /\ pc = "yield"
    /\ seen[2] = "NotRunning"
    /\ Issued("timer::start", calls)
    /\ timer = "Running"
    /\ PausedByTick

\* C22: at the end of a tick that found the timer Running or Paused,
\* timer::set_game_time was issued once, with the progress_igt that the update_loop of
\* the same tick left, and before the timer::split of the tick if there is one; a tick
\* that found the timer in another state did not issue it.
C22_GameTimeBeforeSplit ==
    /\ [][UpdateStep => (setTime' = None /\ ~Issued("timer::set_game_time", calls'))]_vars
    /\ [](pc = "yield"
            => IF seen[2] \in {"Running", "Paused"}
               THEN /\ setTime = Some(watchers.progress_igt)
                    /\ Len(SelectSeq(calls, LAMBDA op : op = "timer::set_game_time")) = 1
                    /\ first("update_loop") < first("timer::set_game_time")
                    /\ Issued("timer::split", calls)
                          => first("timer::set_game_time") < first("timer::split")
               ELSE setTime = None /\ ~Issued("timer::set_game_time", calls))

\* a tick that sampled the end of a race, added its time and split with that game time
C22_Witness ==
    /\ pc = "yield"
    /\ seen[2] = "Running"
    /\ pair_is(watchers.race_completed, FALSE, TRUE)
    /\ Issued("timer::split", calls)
    /\ watchers.progress_igt > 0
    /\ setTime = Some(watchers.progress_igt)

\* C23: reset() is false on the watchers and settings of every tick; no tick issues
\* timer::reset, the decisions of a tick never take the timer to NotRunning, and split
\* is evaluated on exactly the ticks that found the timer Running or Paused.
C23_NeverResets ==
    /\ [](Sampled => ~reset(watchers, settings))
    /\ [](~Issued("timer::reset", calls))
    /\ [](pc = "yield" => (Issued("split", calls) <=> seen[2] \in {"Running", "Paused"}))
    /\ [][(pc = "decide" /\ timer # "NotRunning") => timer' # "NotRunning"]_vars

\* a tick on which the credits started with the timer paused: split was evaluated, the
\* timer stayed paused
C23_Witness ==
    /\ pc = "yield"
    /\ seen[2] = "Paused"
    /\ pair_is(watchers.end_credits, FALSE, TRUE)
    /\ Issued("reset", calls)
    /\ Issued("split", calls)
    /\ timer = "Paused"

\* the five results of an evaluation of the engine
results(e) == <<e.is_loading, e.game_time, e.reset, e.start, e.split>>

Folds(w) ==
    /\ unwrap(w.igt).old # 0 /\ unwrap(w.igt).current = 0
    /\ unwrap(w.race_status).old = SegmentFinished

\* C25: an update_loop that finds the timer not NotRunning and samples the
\* race-completion flag false: if the raw timer changed to zero and the race status of
\* the tick before was 4, total_igt grows by the raw timer of the tick before and
\* progress_igt is the new total_igt; otherwise total_igt stays and progress_igt is
\* total_igt plus the raw timer of this tick.
C25_FoldOrProgress ==
    [][(UpdateStep /\ timer # "NotRunning" /\ ~unwrap(watchers'.race_completed).current)
        => IF Folds(watchers')
           THEN /\ watchers'.total_igt = watchers.total_igt + unwrap(watchers'.igt).old
                /\ watchers'.progress_igt = watchers'.total_igt
           ELSE /\ watchers'.total_igt = watchers.total_igt
                /\ watchers'.progress_igt
                       = watchers.total_igt + unwrap(watchers'.igt).current]_vars

\* a fold: the raw timer went from 10 ms to zero after a finished segment
C25_Witness ==
    /\ pc = "decide"
    /\ seen = <<"Running">>
    /\ pair_is(watchers.race_completed, FALSE, FALSE)
    /\ Folds(watchers)
    /\ unwrap(watchers.igt).old > 0
    /\ watchers.total_igt >= unwrap(watchers.igt).old
    /\ watchers.progress_igt = watchers.total_igt

\* the race runs on the live timer: a World-Tour event without a lap count, or the
\* marathon event
LiveTimed(w) ==
    \/ mode_in(w, {"WorldTour"}) /\ unwrap(w.required_laps).current = NoLapCount
    \/ unwrap(w.event_type).current = MarathonEvent

\* C26: an update_loop that finds the timer not NotRunning and samples the
\* race-completion pair (false, true) adds to total_igt the raw timer of this tick if
\* the mode is World-Tour and the required laps sampled are 0xFF, or if the event
\* identifier is 0xE64B5DD8, and the total race time sampled otherwise; progress_igt is
\* the new total_igt.
C26_CompletionAdds ==
    [][(UpdateStep /\ timer # "NotRunning"
            /\ pair_is(watchers'.race_completed, FALSE, TRUE))
        => /\ watchers'.total_igt
                 = watchers.total_igt
                     + (IF LiveTimed(watchers')
                        THEN unwrap(watchers'.igt).current
                        ELSE unwrap(watchers'.total_race_time).current)
           /\ watchers'.progress_igt = watchers'.total_igt]_vars

\* a World-Tour event without a lap count completed: the 10 ms of the live timer were
\* added, not the 20 ms of the total race time
C26_Witness ==
    /\ pc = "decide"
    /\ seen = <<"Running">>
    /\ pair_is(watchers.race_completed, FALSE, TRUE)
    /\ mode_in(watchers, {"WorldTour"})
    /\ unwrap(watchers.required_laps).current = NoLapCount
    /\ unwrap(watchers.igt).current = 10
    /\ unwrap(watchers.total_race_time).current = 20
    /\ watchers.total_igt = 10
    /\ watchers.progress_igt = 10

\* C27: after every tick, if the race-completion flag sampled is false and the tick
\* found the timer not NotRunning then progress_igt = total_igt + the raw timer sampled;
\* if the flag sampled is true then progress_igt = total_igt; and in every state whose
\* last raw-timer sample is not negative, progress_igt >= total_igt.
C27_ProgressAndTotal ==
    /\ Sampled
          => /\ (~unwrap(watchers.race_completed).current /\ seen[1] # "NotRunning")
                    => watchers.progress_igt
                           = watchers.total_igt + unwrap(watchers.igt).current
             /\ unwrap(watchers.race_completed).current
                    => watchers.progress_igt = watchers.total_igt
    /\ (is_some(watchers.igt) => unwrap(watchers.igt).current >= 0)
          => watchers.progress_igt >= watchers.total_igt

\* the second race of a run under way: one race time accumulated, the live timer on top
C27_Witness ==
    /\ pc = "yield"
    /\ seen[1] = "Running"
    /\ pair_is(watchers.race_completed, FALSE, FALSE)
    /\ watchers.total_igt > 0
    /\ unwrap(watchers.igt).current > 0
    /\ watchers.progress_igt > watchers.total_igt

\* every read of the tick failed
AllFailed == inp = NoInput

\* C28: update_loop always returns to main, whatever reads fail: it moves every watcher
\* by exactly one sample (the new old is the current of the tick before, or the sample
\* itself on the first tick), so from the first tick of an attachment on no pair is
\* absent; and the tick goes on to its decisions: is_loading, game_time, reset and split
\* with the timer Running or Paused, start with the timer NotRunning.
C28_SamplerNeverFails ==
    /\ [][pc = "update"
            => /\ pc' = "decide"
               /\ \A k \in WatcherNames :
                    /\ is_some(watchers'[k])
                    /\ unwrap(watchers'[k]).old
                         = (IF is_some(watchers[k])
                            THEN unwrap(watchers[k]).current
                            ELSE unwrap(watchers'[k]).current)]_vars
    /\ [](Sampled => \A k \in WatcherNames : is_some(watchers[k]))
    /\ [][pc = "decide" => pc' = "yield"]_vars
    /\ [](pc = "yield"
            => /\ seen[2] \in {"Running", "Paused"}
                    => \A op \in {"is_loading", "game_time", "reset", "split"} :
                            Issued(op, calls)
               /\ seen[3] = "NotRunning" => Issued("start", calls))

\* the first tick of an attachment with every read failing: no pair is absent and
\* start was evaluated
C28_Witness ==
    /\ pc = "yield"
    /\ AllFailed
    /\ Issued("Addresses::init", calls)
    /\ \A k \in WatcherNames : is_some(watchers[k])
    /\ Issued("start", calls)

\* the fields read directly or through a pointer path, and the default of their types
DefaultOf ==
    [end_credits |-> FALSE, race_completed |-> FALSE, race_status |-> 0, igt |-> 0,
     event_type |-> ZeroId]

\* on a tick whose read of `name` fails the pair's current value is the default
DefaultOnFailure(names) ==
    UpdateStep
        => \A name \in names :
              ~inp'[name].ok => unwrap(watchers'[name]).current = DefaultOf[name]

\* C29 as claimed: a failed read of the end-credits flag, the race-completion flag, the
\* race status, the raw timer or the event identifier makes the pair's current value
\* the default of the type (false, 0, a zero duration).
C29_FailedReadsDefault == [][DefaultOnFailure(DOMAIN DefaultOf)]_vars

\* C29 amended: a failed read of the end-credits flag, the race-completion flag, the
\* race status or the event identifier makes the pair's current value the default of
\* the type; a failed read of the raw timer leaves the current value of the tick
\* before, and a zero duration on the first tick of an attachment.
C29_FailedReadsDefaultOrKept ==
    [][/\ DefaultOnFailure(DOMAIN DefaultOf \ {"igt"})
       /\ (UpdateStep /\ ~inp'.igt.ok)
            => unwrap(watchers'.igt).current
                 = (IF is_some(watchers.igt) THEN unwrap(watchers.igt).current ELSE 0)]_vars

\* a tick on which every read failed after a tick that read 10 ms: the raw timer is
\* still 10 ms, the flags and the event identifier are at their defaults
C29_Witness ==
    /\ pc = "decide"
    /\ AllFailed
    /\ pair_is(watchers.igt, 10, 10)
    /\ \A name \in DOMAIN DefaultOf \ {"igt"} :
            unwrap(watchers[name]).current = DefaultOf[name]

\* main is at an await: retry's between two attempts of Addresses::init, or next_tick
YieldPoint == pc \in {"retry", "yield"}

\* C30: the attachment is abandoned only from an await of main (between two attempts of
\* Addresses::init or between two ticks); a tick that has run update_loop goes on to
\* its decisions and timer calls with the attachment still held, and between two
\* awaits main runs update_loop once.
C30_TicksAtomic ==
    /\ [][(alive /\ ~alive') => (YieldPoint /\ pc' = "attach")]_vars
    /\ [][(pc # "attach" /\ pc' = "attach") => YieldPoint]_vars
    /\ [][pc = "update" => (pc' = "decide" /\ alive')]_vars
    /\ [][pc = "decide" => (pc' = "yield" /\ alive')]_vars
    /\ [](Sampled => (alive /\ Len(SelectSeq(calls, LAMBDA op : op = "update_loop")) = 1))

\* the process exited after a tick that started the run: the attachment was dropped
\* with the tick complete
C30_Witness ==
    /\ pc = "attach"
    /\ ~alive
    /\ calls = <<"until_closes">>
    /\ watchers # WatchersDefault
    /\ pair_is(watchers.run_start, FALSE, TRUE)
    /\ timer = "Running"

\* C31: no tick issues both timer::start and timer::split. timer::split is issued only
\* in a tick whose decisions found the timer Running or Paused, timer::start only where
\* the timer read after the reset/split block was NotRunning, and the decisions of a
\* tick that issued timer::split do not leave the timer NotRunning.
C31_StartOrSplit ==
    pc = "yield"
        => /\ ~(Issued("timer::start", calls) /\ Issued("timer::split", calls))
           /\ Issued("timer::split", calls)
                 => /\ seen[2] \in {"Running", "Paused"}
                    /\ seen[3] # "NotRunning"
                    /\ timer # "NotRunning"
           /\ Issued("timer::start", calls)
                 => /\ seen[2] = "NotRunning"
                    /\ seen[3] = "NotRunning"

\* a Grand-Prix tick on which the run-start and the race-completion edges came
\* together with the timer Running: the tick split and did not start
C31_Witness ==
    /\ pc = "yield"
    /\ seen[2] = "Running"
    /\ start(watchers, settings)
    /\ split(watchers, settings)
    /\ Issued("timer::split", calls)
    /\ ~Issued("timer::start", calls)

\* C32: a tick that issues timer::start found the timer NotRunning in its update_loop
\* too, so total_igt and progress_igt are both zero when the start is issued, whatever
\* was accumulated before and whatever the raw timer reads; within a tick the timer
\* changes only through the calls of the tick.
C32_StartsFromZero ==
    /\ [](pc = "yield"
            => (Issued("timer::start", calls)
                  => /\ seen[1] = "NotRunning"
                     /\ watchers.total_igt = 0
                     /\ watchers.progress_igt = 0))
    /\ [][(pc = "decide" /\ start(watchers, settings) /\ timer = "NotRunning")
            => (watchers.total_igt = 0 /\ watchers.progress_igt = 0
                    /\ watchers'.total_igt = 0 /\ watchers'.progress_igt = 0)]_vars

\* the run started on a tick whose raw timer read 10 ms: the game time is zero
C32_Witness ==
    /\ pc = "yield"
    /\ Issued("timer::start", calls)
    /\ timer = "Running"
    /\ unwrap(watchers.igt).current = 10
    /\ watchers.total_igt = 0
    /\ watchers.progress_igt = 0

\* the watchers whose failed read keeps the value of the tick before
KeptOnFailure == {"igt", "required_laps", "total_race_time"}

\* C33: on a tick whose read of the raw timer, of the required laps or of the total
\* race time fails (the read itself or a pointer on the way to it), that watcher's
\* current value is the one of the tick before, zero if it had no pair; a tick whose
\* raw-timer read fails shows no change of the raw timer and does not fold: with the
\* timer not NotRunning and the completion flag sampled false, total_igt stays.
C33_FailureKeepsValue ==
    [][UpdateStep
        => /\ \A name \in KeptOnFailure :
                ~inp'[name].ok
                    => unwrap(watchers'[name]).current
                         = (IF is_some(watchers[name])
                            THEN unwrap(watchers[name]).current
                            ELSE 0)
           /\ ~inp'.igt.ok
                => /\ ~changed(unwrap(watchers'.igt))
                   /\ ~Folds(watchers')
                   /\ (timer # "NotRunning" /\ ~unwrap(watchers'.race_completed).current)
                        => watchers'.total_igt = watchers.total_igt]_vars

\* the raw timer could not be read on the tick after a finished segment at 10 ms, while
\* game memory holds zero: the pair is (10 ms, 10 ms) and nothing was folded
C33_Witness ==
    /\ pc = "decide"
    /\ seen = <<"Running">>
    /\ ~inp.igt.ok
    /\ pair_is(watchers.igt, 10, 10)
    /\ unwrap(watchers.race_status).old = SegmentFinished
    /\ pair_is(watchers.race_completed, FALSE, FALSE)
    /\ watchers.total_igt = 0
    /\ watchers.progress_igt = 10

=============================================================================
